---------------------------- MODULE Spec2Model ----------------------------
(***************************************************************************)
(* A model of the quote pricing engine (backend/routers/quotes.py) and of  *)
(* the seasonal-rate endpoints (backend/routers/seasonal_rates.py).         *)
(*                                                                         *)
(* Money.  The code computes with Python floats.  The model takes integer  *)
(* inputs and carries every computed amount in hundredths of a currency    *)
(* unit, so that a percentage markup (x * (m / 100)) and a price           *)
(* multiplier (kept in hundredths: 150 stands for 1.5) are exact.          *)
(*                                                                         *)
(* Optional values.  A nullable column or Optional field is a sequence of  *)
(* length at most one: <<>> is None and <<v>> is the value v.              *)
(***************************************************************************)
EXTENDS Integers, Sequences, FiniteSets, TLC

VARIABLES
    rates,        \* the seasonal_rates table: rates[i] is the row with id i
    resp,         \* the response to the last seasonal-rate request
    args,         \* the arguments of one calculate_quote_pricing call
    breakdowns,   \* what that call returned
    pc,           \* "ready" before the call, "done" after it, "again" after a
                  \* second call on the same arguments
    ret,          \* what a call of calculate_rooms or select_vehicle returned
    quotes,       \* the quotes table: quotes[i] is the row with id i
    qresp,        \* the response to the last quote request
    bookings,     \* the bookings table: bookings[i] is the row with id i
    agents,       \* the statistics columns of the agents table, by agent id
    bresp,        \* the response to the last booking request
    payments,     \* the payments table: payments[i] is the row with id i
    presp,        \* the response to the last payment request
    inflight      \* the create_seasonal_rate requests being served by the
                  \* thread pool, each with its position in the handler

vars ==
    <<rates, resp, args, breakdowns, pc, ret, quotes, qresp,
      bookings, agents, bresp, payments, presp, inflight>>
rateVars == <<rates, resp>>
engineVars == <<args, breakdowns, pc, ret>>
quoteVars == <<quotes, qresp>>
ledgerVars == <<bookings, agents, bresp, payments, presp, inflight>>

---------------------------------------------------------------------------
(* Bounds of the model. *)

MaxRates == 2
MaxLegs == 2
MaxHotels == 3
MaxAddOns == 1
MaxOptions == 2
MaxQuotes == 2
MaxAdults == 4
MaxChildren == 2
MaxTotalPax == 27

---------------------------------------------------------------------------
(* Optional values and Python truthiness. *)

None == <<>>
Some(v) == <<v>>
IsNone(o) == o = <<>>
Val(o) == o[1]

\* bool(x) of an Optional[float]: None and 0.0 are both falsy.
Truthy(o) == o # <<>> /\ o[1] # 0

---------------------------------------------------------------------------
(* The packages table.  No operation modelled here writes it. *)

PackageIds == {"p1", "p2"}
UnknownPackage == "p0"

Packages ==
    [id \in PackageIds |->
        IF id = "p1"
        THEN [base_price |-> 1000, duration |-> 3, nights |-> <<1, 2>>, is_active |-> TRUE]
        ELSE [base_price |-> 300, duration |-> 4, nights |-> <<2, 1>>, is_active |-> FALSE]]

---------------------------------------------------------------------------
(* Seasonal rates: backend/routers/seasonal_rates.py *)

\* Calendar dates are numbered days.  With four days a package can hold two
\* ranges that do not meet ([1,2] and [3,4]) and two that share one day only.
Dates == 1..4
Multipliers == {150}
FixedPrices == {None}

\* SeasonalRateCreate: the request bodies of POST /seasonal-rates/ sent here.
\* Every range with start_date < end_date for every package, active or not;
\* every range with start_date >= end_date once; one unknown package.
CreateRequests ==
    {req \in [package_id : PackageIds,
              start_date : Dates,
              end_date : Dates,
              price_multiplier : Multipliers,
              fixed_price : FixedPrices,
              is_active : BOOLEAN] :
        \/ req.start_date < req.end_date
        \/ req.package_id = "p1" /\ req.is_active}
    \cup
    [package_id : {UnknownPackage},
     start_date : {1},
     end_date : {2},
     price_multiplier : Multipliers,
     fixed_price : FixedPrices,
     is_active : {TRUE}]

RateIds == 1..Len(rates)

\* The filter of the overlap query: an active rate of the same package whose
\* range meets [start_date, end_date], both ends included.
OverlapsExclusive(r, req) ==
    /\ r.package_id = req.package_id
    /\ r.is_active = TRUE
    /\ r.start_date < req.end_date
    /\ r.end_date > req.start_date

Overlaps(r, req) ==
    /\ r.package_id = req.package_id
    /\ r.is_active = TRUE
    /\ r.start_date <= req.end_date
    /\ r.end_date >= req.start_date

\* if start_date >= end_date: raise HTTPException(400)
InvalidRangeStrict(start_date, end_date) == start_date > end_date

InvalidRange(start_date, end_date) == start_date >= end_date

Reply(op, status, detail, body) ==
    [op |-> op, status |-> status, detail |-> detail, body |-> body]

create_seasonal_rate(req) ==
    IF req.package_id \notin PackageIds
    THEN /\ resp' = Reply("create_seasonal_rate", 404, "Package not found", None)
         /\ UNCHANGED rates
    ELSE IF InvalidRange(req.start_date, req.end_date)
    THEN /\ resp' = Reply("create_seasonal_rate", 400, "Start date must be before end date", None)
         /\ UNCHANGED rates
    ELSE IF \E i \in RateIds : Overlaps(rates[i], req)
    THEN /\ resp' = Reply("create_seasonal_rate", 400, "Seasonal rate overlaps with existing rate", None)
         /\ UNCHANGED rates
    ELSE /\ Len(rates) < MaxRates
         /\ rates' = Append(rates, req)
         /\ resp' = Reply("create_seasonal_rate", 200, "", Some(Len(rates) + 1))

CreateSeasonalRate ==
    /\ \E req \in CreateRequests : create_seasonal_rate(req)
    /\ UNCHANGED <<engineVars, quoteVars, ledgerVars>>

\* price_multiplier is a plain float in SeasonalRateBase: a negative one (-50
\* stands for -0.5) passes validation.
PricedMultipliers == {150, -50}

\* Requests that differ in their prices: two ranges of package p1 that do not
\* meet, each with or without a fixed price.
PricedRequests ==
    [package_id : {"p1"},
     start_date : {1},
     end_date : {2},
     price_multiplier : PricedMultipliers,
     fixed_price : {None, Some(0), Some(200)},
     is_active : {TRUE}]
    \cup
    [package_id : {"p1"},
     start_date : {3},
     end_date : {4},
     price_multiplier : PricedMultipliers,
     fixed_price : {None, Some(0), Some(200)},
     is_active : {TRUE}]

CreatePricedRate ==
    /\ \E req \in PricedRequests : create_seasonal_rate(req)
    /\ UNCHANGED <<engineVars, quoteVars, ledgerVars>>

\* SeasonalRateUpdate: every field is optional; dict(exclude_unset=True) keeps
\* the fields the request sets.  A field is None when unset and Some(v) when
\* set to v (fixed_price is itself nullable, so it can be set to None).
Unset ==
    [start_date |-> None, end_date |-> None, price_multiplier |-> None,
     fixed_price |-> None, is_active |-> None]

UpdatePayloads ==
    {Unset}
    \cup {[Unset EXCEPT !.start_date = Some(d)] : d \in Dates}
    \cup {[Unset EXCEPT !.end_date = Some(d)] : d \in Dates}
    \cup {[Unset EXCEPT !.start_date = Some(de[1]), !.end_date = Some(de[2])] :
                de \in {x \in Dates \X Dates : x[1] < x[2]}}
    \cup {[Unset EXCEPT !.price_multiplier = Some(m)] : m \in Multipliers}
    \cup {[Unset EXCEPT !.fixed_price = Some(f)] : f \in FixedPrices}
    \cup {[Unset EXCEPT !.is_active = Some(b)] : b \in BOOLEAN}

\* update_data.get(field, current)
Get(p, field, current) == IF IsNone(p[field]) THEN current ELSE Val(p[field])

\* for field, value in update_data.items(): setattr(db_seasonal_rate, field, value)
ApplyUpdate(row, p) ==
    [package_id |-> row.package_id,
     start_date |-> Get(p, "start_date", row.start_date),
     end_date |-> Get(p, "end_date", row.end_date),
     price_multiplier |-> Get(p, "price_multiplier", row.price_multiplier),
     fixed_price |-> Get(p, "fixed_price", row.fixed_price),
     is_active |-> Get(p, "is_active", row.is_active)]

update_seasonal_rate(id, p) ==
    IF id \notin RateIds
    THEN /\ resp' = Reply("update_seasonal_rate", 404, "Seasonal rate not found", None)
         /\ UNCHANGED rates
    ELSE IF InvalidRange(Get(p, "start_date", rates[id].start_date),
                         Get(p, "end_date", rates[id].end_date))
    THEN /\ resp' = Reply("update_seasonal_rate", 400, "Start date must be before end date", None)
         /\ UNCHANGED rates
    ELSE /\ rates' = [rates EXCEPT ![id] = ApplyUpdate(rates[id], p)]
         /\ resp' = Reply("update_seasonal_rate", 200, "", Some(id))

UpdateSeasonalRate ==
    /\ \E id \in 1..MaxRates, p \in UpdatePayloads : update_seasonal_rate(id, p)
    /\ UNCHANGED <<engineVars, quoteVars, ledgerVars>>

\* db_seasonal_rate.is_active = False
delete_seasonal_rate_hard(id) ==
    IF id \notin RateIds
    THEN /\ resp' = Reply("delete_seasonal_rate", 404, "Seasonal rate not found", None)
         /\ UNCHANGED rates
    ELSE /\ rates' = SubSeq(rates, 1, id - 1) \o SubSeq(rates, id + 1, Len(rates))
         /\ resp' = Reply("delete_seasonal_rate", 200, "Seasonal rate deleted successfully", Some(id))

delete_seasonal_rate(id) ==
    IF id \notin RateIds
    THEN /\ resp' = Reply("delete_seasonal_rate", 404, "Seasonal rate not found", None)
         /\ UNCHANGED rates
    ELSE /\ rates' = [rates EXCEPT ![id].is_active = FALSE]
         /\ resp' = Reply("delete_seasonal_rate", 200, "Seasonal rate deleted successfully", Some(id))

PriceUpdates ==
    {[Unset EXCEPT !.fixed_price = Some(f)] : f \in {None, Some(0), Some(200)}}

UpdateRatePrice ==
    /\ \E id \in 1..MaxRates, p \in PriceUpdates : update_seasonal_rate(id, p)
    /\ UNCHANGED <<engineVars, quoteVars, ledgerVars>>

DeleteSeasonalRate ==
    /\ \E id \in 1..MaxRates : delete_seasonal_rate(id)
    /\ UNCHANGED <<engineVars, quoteVars, ledgerVars>>

\* The filter of the resolver's query.
ApplicableAnyStatus(r, package_id, travel_date) ==
    /\ r.package_id = package_id
    /\ r.start_date <= travel_date
    /\ r.end_date >= travel_date

Applicable(r, package_id, travel_date) ==
    /\ r.package_id = package_id
    /\ r.is_active = TRUE
    /\ r.start_date <= travel_date
    /\ r.end_date >= travel_date

Matching(package_id, travel_date) ==
    {i \in RateIds : Applicable(rates[i], package_id, travel_date)}

\* final_price of a matched rate; amounts in hundredths.
SeasonalFinalPrice(base_price, r) ==
    IF Truthy(r.fixed_price)
    THEN Val(r.fixed_price) * 100
    ELSE base_price * r.price_multiplier

\* The query has no ORDER BY: .first() returns whichever matching row the
\* database yields first, so any matching row may be the one used.
calculate_seasonal_price(package_id, travel_date) ==
    IF package_id \notin PackageIds
    THEN /\ resp' = Reply("calculate_seasonal_price", 404, "Package not found", None)
         /\ UNCHANGED rates
    ELSE IF Matching(package_id, travel_date) # {}
    THEN /\ \E i \in Matching(package_id, travel_date) :
              resp' = Reply("calculate_seasonal_price", 200, "",
                        [package_id |-> package_id,
                         travel_date |-> travel_date,
                         base_price |-> Packages[package_id].base_price * 100,
                         seasonal_rate |->
                            Some([id |-> i,
                                  price_multiplier |-> rates[i].price_multiplier,
                                  fixed_price |-> rates[i].fixed_price]),
                         final_price |->
                            SeasonalFinalPrice(Packages[package_id].base_price, rates[i])])
         /\ UNCHANGED rates
    ELSE /\ resp' = Reply("calculate_seasonal_price", 200, "",
                        [package_id |-> package_id,
                         travel_date |-> travel_date,
                         base_price |-> Packages[package_id].base_price * 100,
                         seasonal_rate |-> None,
                         final_price |-> Packages[package_id].base_price * 100])
         /\ UNCHANGED rates

CalculateSeasonalPrice ==
    /\ \E package_id \in PackageIds \cup {UnknownPackage}, travel_date \in Dates :
          calculate_seasonal_price(package_id, travel_date)
    /\ UNCHANGED <<engineVars, quoteVars, ledgerVars>>


---------------------------------------------------------------------------
(* The pricing engine: backend/routers/quotes.py *)

\* TierLevel, and "none" for an agent whose tier column is NULL.
TierLevels == {"Bronze", "Silver", "Gold", "Platinum"}
NoTier == "none"

\* TIER_DISCOUNTS.get(agent.tier, 0)
TIER_DISCOUNTS_default_bronze(tier) ==
    CASE tier = "Bronze" -> 5
      [] tier = "Silver" -> 10
      [] tier = "Gold" -> 15
      [] tier = "Platinum" -> 20
      [] OTHER -> 5

TIER_DISCOUNTS(tier) ==
    CASE tier = "Bronze" -> 5
      [] tier = "Silver" -> 10
      [] tier = "Gold" -> 15
      [] tier = "Platinum" -> 20
      [] OTHER -> 0

VEHICLE_PRICING ==
    << [type |-> "Avanza", capacity |-> 6, price_per_day |-> 35],
       [type |-> "Innova", capacity |-> 8, price_per_day |-> 45],
       [type |-> "ELF", capacity |-> 15, price_per_day |-> 65],
       [type |-> "Bus", capacity |-> 25, price_per_day |-> 85] >>

Max(a, b) == IF a >= b THEN a ELSE b

\* total_bed_occupants = adults + child_with_bed; rooms = (total_bed_occupants + 1) // 2
calculate_rooms_all_children(adults, child_with_bed, child_without_bed) ==
    [rooms |-> Max(1, (adults + child_with_bed + child_without_bed + 1) \div 2),
     total_occupants |-> adults + child_with_bed,
     children_without_bed |-> child_without_bed]

calculate_rooms(adults, child_with_bed, child_without_bed) ==
    [rooms |-> Max(1, (adults + child_with_bed + 1) \div 2),
     total_occupants |-> adults + child_with_bed,
     children_without_bed |-> child_without_bed]

\* for vehicle in VEHICLE_PRICING: the scan from the k-th entry on.
RECURSIVE VehicleScan(_, _)
VehicleScan(total_pax, k) ==
    IF k > Len(VEHICLE_PRICING)
    THEN VEHICLE_PRICING[Len(VEHICLE_PRICING)]
    ELSE IF total_pax <= VEHICLE_PRICING[k].capacity
    THEN VEHICLE_PRICING[k]
    ELSE VehicleScan(total_pax, k + 1)

\* if total_pax <= vehicle["capacity"]: return vehicle
select_vehicle_strict(total_pax) ==
    IF \E k \in 1..Len(VEHICLE_PRICING) : total_pax < VEHICLE_PRICING[k].capacity
    THEN VEHICLE_PRICING[CHOOSE k \in 1..Len(VEHICLE_PRICING) :
                            /\ total_pax < VEHICLE_PRICING[k].capacity
                            /\ \A j \in 1..(k - 1) : total_pax >= VEHICLE_PRICING[j].capacity]
    ELSE VEHICLE_PRICING[Len(VEHICLE_PRICING)]

select_vehicle(total_pax) == VehicleScan(total_pax, 1)

\* nights = package.nights[i] if i < len(package.nights) else 1
\* (i counts from 1 here, from 0 in the code)
NightsZeroFallback(nights, i) == IF i <= Len(nights) THEN nights[i] ELSE 0

LegNights(nights, i) == IF i <= Len(nights) THEN nights[i] ELSE 1

\* for i, hotel in enumerate(option["hotels"]): hotel_cost += ...
\* the loop from the i-th hotel entry on, hotel_cost so far in acc.
RECURSIVE HotelLoop(_, _, _, _, _)
HotelLoop(hotels, nights, rooms, i, acc) ==
    IF i > Len(hotels)
    THEN acc
    ELSE HotelLoop(hotels, nights, rooms, i + 1,
                   acc + hotels[i].price_per_night * LegNights(nights, i) * rooms)

\* for addon in option.get("add_ons", []): addon_cost += addon["price"] * pax["total"]
RECURSIVE AddonLoopFlatFee(_, _, _, _)
AddonLoopFlatFee(add_ons, total, i, acc) ==
    IF i > Len(add_ons)
    THEN acc
    ELSE AddonLoopFlatFee(add_ons, total, i + 1, acc + add_ons[i].price)

RECURSIVE AddonLoop(_, _, _, _)
AddonLoop(add_ons, total, i, acc) ==
    IF i > Len(add_ons)
    THEN acc
    ELSE AddonLoop(add_ons, total, i + 1, acc + add_ons[i].price * total)

\* vehicle_cost = vehicle["price_per_day"] * package.duration
VehicleCostFlat(vehicle, package) == vehicle.price_per_day

VehicleCost(vehicle, package) == vehicle.price_per_day * package.duration

\* base_price = package.base_price * pax["total"]
BasePricePerBooking(package, pax) == package.base_price

BasePrice(package, pax) == package.base_price * pax.total

\* discounted_price = subtotal - tier_discount_amount
UndiscountedPrice(subtotal, tier_discount_amount) == subtotal

DiscountedPrice(subtotal, tier_discount_amount) == subtotal - tier_discount_amount

\* final_price = discounted_price + markup_amount, in hundredths
FinalPriceFloored(discounted_price, markup_amount) ==
    Max(0, discounted_price * 100 + markup_amount)

FinalPrice(discounted_price, markup_amount) ==
    discounted_price * 100 + markup_amount

\* One pass of the loop body: the PricingBreakdown of one option.  The inputs
\* are whole currency units; the fields of the breakdown are hundredths.
PricingBreakdown(package, option, pax, tier) ==
    LET base_price == BasePrice(package, pax)
        room_calc == calculate_rooms(pax.adults, pax.child_with_bed, pax.child_without_bed)
        hotel_cost == HotelLoop(option.hotels, package.nights, room_calc.rooms, 1, 0)
        vehicle == select_vehicle(pax.total)
        vehicle_cost == VehicleCost(vehicle, package)
        addon_cost == AddonLoop(option.add_ons, pax.total, 1, 0)
        subtotal == base_price + hotel_cost + vehicle_cost + addon_cost
        tier_discount_amount == TIER_DISCOUNTS(tier) * pax.total
        discounted_price == DiscountedPrice(subtotal, tier_discount_amount)
        markup_amount ==
            IF option.markup_type = "percentage"
            THEN discounted_price * option.markup
            ELSE option.markup * 100
    IN  [base_price |-> base_price * 100,
         hotel_cost |-> hotel_cost * 100,
         vehicle_cost |-> vehicle_cost * 100,
         addon_cost |-> addon_cost * 100,
         tier_discount |-> tier_discount_amount * 100,
         markup |-> markup_amount,
         final_price |-> FinalPrice(discounted_price, markup_amount)]

\* for option in options: ... pricing_breakdowns.append(pricing_breakdown)
\* the loop from the i-th option on, pricing_breakdowns so far in acc.
RECURSIVE PricingLoopPrepend(_, _, _, _, _, _)
PricingLoopPrepend(package, options, pax, tier, i, acc) ==
    IF i > Len(options)
    THEN acc
    ELSE PricingLoopPrepend(package, options, pax, tier, i + 1,
                     <<PricingBreakdown(package, options[i], pax, tier)>> \o acc)

RECURSIVE PricingLoop(_, _, _, _, _, _)
PricingLoop(package, options, pax, tier, i, acc) ==
    IF i > Len(options)
    THEN acc
    ELSE PricingLoop(package, options, pax, tier, i + 1,
                     Append(acc, PricingBreakdown(package, options[i], pax, tier)))

\* pricing_breakdowns = [] ... return pricing_breakdowns
calculate_quote_pricing_shared_list(package, options, pax, tier) ==
    PricingLoop(package, options, pax, tier, 1, breakdowns)

calculate_quote_pricing(package, options, pax, tier) ==
    PricingLoop(package, options, pax, tier, 1, <<>>)

\* Sequences over S of length at most n.
SeqUpTo(S, n) == UNION {[1..k -> S] : k \in 0..n}

\* The arguments one call is given.
BasePrices == {0, 100}
Durations == {0, 3}
NightCounts == {1, 2}
HotelPrices == {40, 50}
AddOnPrices == {20}
Markups == {10}
MarkupTypes == {"flat", "percentage"}

EnginePackages ==
    [base_price : BasePrices, duration : Durations, nights : SeqUpTo(NightCounts, MaxLegs)]

\* PaxDetails as the callers send it: total is the sum of the parts.
PaxOf(adults, child_with_bed, child_without_bed) ==
    [adults |-> adults,
     child_with_bed |-> child_with_bed,
     child_without_bed |-> child_without_bed,
     total |-> adults + child_with_bed + child_without_bed]

\* Parties of up to five, which travel in the smallest vehicle, and one of nine.
EnginePax ==
    {PaxOf(a, b, c) : a \in {0, 2, 3}, b \in {0, 1}, c \in {0, 1}} \cup {PaxOf(9, 0, 0)}

Hotel(price) == [price_per_night |-> price]
AddOn(price) == [price |-> price]

\* QuoteOption: every option with up to MaxHotels hotel entries and up to
\* MaxAddOns add-ons.
EngineOptions ==
    [hotels : SeqUpTo({Hotel(h) : h \in HotelPrices}, MaxHotels),
     add_ons : SeqUpTo({AddOn(a) : a \in AddOnPrices}, MaxAddOns),
     markup : Markups,
     markup_type : MarkupTypes]

\* Three options that differ in every field, for calls with several options.
SampleOptions ==
    { [hotels |-> <<Hotel(50), Hotel(40)>>, add_ons |-> <<>>,
       markup |-> 10, markup_type |-> "percentage"],
      [hotels |-> <<Hotel(40)>>, add_ons |-> <<AddOn(20)>>,
       markup |-> 10, markup_type |-> "flat"],
      [hotels |-> <<>>, add_ons |-> <<>>,
       markup |-> 0, markup_type |-> "flat"] }

EngineOptionLists ==
    {<<o>> : o \in EngineOptions} \cup SeqUpTo(SampleOptions, MaxOptions)

EngineArgs ==
    [package : EnginePackages,
     options : EngineOptionLists,
     pax : EnginePax,
     tier : TierLevels \cup {NoTier}]

NoReply == [op |-> "none", status |-> 0, detail |-> "", body |-> None]

\* A seasonal rate in the table while the engine runs.
StoredRate ==
    [package_id |-> "p1", start_date |-> 1, end_date |-> 3,
     price_multiplier |-> 150, fixed_price |-> None, is_active |-> TRUE]

InitEngine ==
    /\ args \in EngineArgs
    /\ breakdowns = <<>>
    /\ pc = "ready"
    /\ ret = None
    /\ rates = <<StoredRate>>
    /\ resp = NoReply
    /\ quotes = <<>>
    /\ qresp = NoReply
    /\ bookings = <<>>
    /\ agents = <<>>
    /\ bresp = NoReply
    /\ payments = <<>>
    /\ presp = NoReply
    /\ inflight = <<>>

\* One call of calculate_quote_pricing on the arguments drawn.
CalculatePricing ==
    /\ pc = "ready"
    /\ breakdowns' = calculate_quote_pricing(args.package, args.options, args.pax, args.tier)
    /\ pc' = "done"
    /\ UNCHANGED <<args, ret, rateVars, quoteVars, ledgerVars>>

\* A second call on the same arguments.
CalculatePricingAgain ==
    /\ pc = "done"
    /\ breakdowns' = calculate_quote_pricing(args.package, args.options, args.pax, args.tier)
    /\ pc' = "again"
    /\ UNCHANGED <<args, ret, rateVars, quoteVars, ledgerVars>>

NextEngine ==
    \/ CalculatePricing
    \/ CalculatePricingAgain

\* The arguments of one call of calculate_rooms and of select_vehicle: the
\* three counts of a party, and a total_pax of any size up to and beyond the
\* largest vehicle.
HelperArgs ==
    [adults : 0..MaxAdults,
     child_with_bed : 0..MaxChildren,
     child_without_bed : 0..MaxChildren,
     total : 0..MaxTotalPax]

InitHelpers ==
    /\ args \in HelperArgs
    /\ breakdowns = <<>>
    /\ pc = "ready"
    /\ ret = None
    /\ rates = <<>>
    /\ resp = NoReply
    /\ quotes = <<>>
    /\ qresp = NoReply
    /\ bookings = <<>>
    /\ agents = <<>>
    /\ bresp = NoReply
    /\ payments = <<>>
    /\ presp = NoReply
    /\ inflight = <<>>

\* One call of calculate_rooms on the counts drawn.
CallCalculateRooms ==
    /\ pc = "ready"
    /\ ret' = Some(calculate_rooms(args.adults, args.child_with_bed, args.child_without_bed))
    /\ pc' = "rooms"
    /\ UNCHANGED <<args, breakdowns, rateVars, quoteVars, ledgerVars>>

\* One call of select_vehicle on the total drawn.
CallSelectVehicle ==
    /\ pc = "ready"
    /\ ret' = Some(select_vehicle(args.total))
    /\ pc' = "vehicle"
    /\ UNCHANGED <<args, breakdowns, rateVars, quoteVars, ledgerVars>>

NextHelpers ==
    \/ CallCalculateRooms
    \/ CallSelectVehicle

---------------------------------------------------------------------------
(* Quotes: backend/routers/quotes.py *)

\* The users and agents tables.  u1 is an approved agent, u2 an agent awaiting
\* approval, u3 a user without an agent profile.  No quote operation writes
\* them.
Users == {"u1", "u2", "u3"}

AgentOf(user) ==
    CASE user = "u1" -> Some("a1")
      [] user = "u2" -> Some("a2")
      [] OTHER -> None

UserStatus(user) == IF user = "u2" THEN "pending" ELSE "approved"

AgentTier(agent) == IF agent = "a1" THEN "Bronze" ELSE "Gold"

QuoteIds == 1..Len(quotes)

TravelDates == {2, 4}
QuotePax == {PaxOf(2, 0, 0), PaxOf(3, 1, 0)}

\* PaxDetails declares total as a plain int: a body whose total is not the sum
\* of its parts passes validation.
InconsistentPax == [PaxOf(2, 0, 0) EXCEPT !.total = 5]

OptionA ==
    [hotels |-> <<Hotel(50), Hotel(40)>>, add_ons |-> <<>>,
     markup |-> 10, markup_type |-> "percentage"]

OptionB ==
    [hotels |-> <<Hotel(40)>>, add_ons |-> <<AddOn(20)>>,
     markup |-> 10, markup_type |-> "flat"]

QuoteOptionLists == {<<>>, <<OptionA>>, <<OptionA, OptionB>>, <<OptionB, OptionA>>}

\* calculate_quote_pricing raises TypeError when it iterates options = None, or
\* subscripts pax = None in the first pass of the loop.  pax is Some(record)
\* or None here; options is Some(list) or None.
EngineRaises(options, pax) ==
    \/ IsNone(options)
    \/ Len(Val(options)) > 0 /\ IsNone(pax)

\* The engine's result as the handlers store it.
Priced(package_id, options, pax, agent) ==
    IF Len(options) = 0
    THEN <<>>
    ELSE calculate_quote_pricing(Packages[package_id], options, Val(pax), AgentTier(agent))

create_quote(user, package_id, travel_date, pax, options) ==
    IF IsNone(AgentOf(user))
    THEN /\ qresp' = Reply("create_quote", 404, "Agent profile not found", None)
         /\ UNCHANGED quotes
    ELSE IF UserStatus(user) # "approved"
    THEN /\ qresp' = Reply("create_quote", 403, "Agent not approved", None)
         /\ UNCHANGED quotes
    ELSE IF package_id \notin PackageIds \/ ~Packages[package_id].is_active
    THEN /\ qresp' = Reply("create_quote", 404, "Package not found or inactive", None)
         /\ UNCHANGED quotes
    ELSE /\ Len(quotes) < MaxQuotes
         /\ quotes' = Append(quotes,
                [agent_id |-> Val(AgentOf(user)),
                 package_id |-> package_id,
                 travel_date |-> travel_date,
                 pax |-> Some(pax),
                 options |-> options,
                 pricing |-> Priced(package_id, options, Some(pax), Val(AgentOf(user))),
                 status |-> "draft"])
         /\ qresp' = Reply("create_quote", 200, "", Some(Len(quotes) + 1))

\* An approved agent sends every body; the other requests are sent once each.
CreateQuote ==
    /\ \/ \E travel_date \in TravelDates, pax \in QuotePax, options \in QuoteOptionLists :
             create_quote("u1", "p1", travel_date, pax, options)
       \/ \E user \in {"u2", "u3"} :
             create_quote(user, "p1", 2, PaxOf(2, 0, 0), <<OptionA>>)
       \/ \E package_id \in {"p2", UnknownPackage} :
             create_quote("u1", package_id, 2, PaxOf(2, 0, 0), <<OptionA>>)
    /\ UNCHANGED <<rateVars, engineVars, ledgerVars>>

\* A request whose pax total is not the sum of its parts.
CreateInconsistentQuote ==
    /\ \E options \in {<<OptionA>>, <<OptionA, OptionB>>} :
          create_quote("u1", "p1", 2, InconsistentPax, options)
    /\ UNCHANGED <<rateVars, engineVars, ledgerVars>>

\* QuoteUpdate, of which travel_dates, pax and options are modelled: a field is
\* None when the request leaves it unset, Some(None) when it sets it to null
\* and Some(Some(v)) when it sets it to v.
NoUpdate == [travel_date |-> None, pax |-> None, options |-> None]

QuoteUpdates ==
    {NoUpdate}
    \cup {[NoUpdate EXCEPT !.travel_date = Some(d)] : d \in TravelDates}
    \cup {[NoUpdate EXCEPT !.pax = Some(Some(x))] : x \in QuotePax}
    \cup {[NoUpdate EXCEPT !.pax = Some(None)]}
    \cup {[NoUpdate EXCEPT !.options = Some(Some(o))] : o \in QuoteOptionLists}
    \cup {[NoUpdate EXCEPT !.options = Some(None)]}
    \cup {[NoUpdate EXCEPT !.pax = Some(Some(PaxOf(3, 1, 0))),
                           !.options = Some(Some(<<OptionB, OptionA>>))]}

\* if "options" in update_data or "pax" in update_data
RepricesOnOptionsOnly(p) == ~IsNone(p.options)

Reprices(p) == ~IsNone(p.options) \/ ~IsNone(p.pax)

update_quote(user, id, p) ==
    IF id \notin QuoteIds
    THEN /\ qresp' = Reply("update_quote", 404, "Quote not found", None)
         /\ UNCHANGED quotes
    ELSE IF IsNone(AgentOf(user)) \/ quotes[id].agent_id # Val(AgentOf(user))
    THEN /\ qresp' = Reply("update_quote", 403, "Access denied", None)
         /\ UNCHANGED quotes
    ELSE LET q == quotes[id]
             travel_date == Get(p, "travel_date", q.travel_date)
             pax == Get(p, "pax", q.pax)
             options == Get(p, "options", Some(q.options))
         IN  IF Reprices(p) /\ EngineRaises(options, pax)
             THEN \* the exception leaves the handler before db.commit()
                  /\ qresp' = Reply("update_quote", 500, "TypeError", None)
                  /\ UNCHANGED quotes
             ELSE /\ quotes' = [quotes EXCEPT ![id] =
                        [q EXCEPT !.travel_date = travel_date,
                                  !.pax = pax,
                                  !.options = Val(options),
                                  !.pricing =
                                      IF Reprices(p)
                                      THEN Priced(q.package_id, Val(options), pax,
                                                  Val(AgentOf(user)))
                                      ELSE q.pricing]]
                  /\ qresp' = Reply("update_quote", 200, "", Some(id))

UpdateQuote ==
    /\ \E user \in Users, id \in 1..MaxQuotes, p \in QuoteUpdates : update_quote(user, id, p)
    /\ UNCHANGED <<rateVars, engineVars, ledgerVars>>

duplicate_quote(user, id) ==
    IF id \notin QuoteIds
    THEN /\ qresp' = Reply("duplicate_quote", 404, "Quote not found", None)
         /\ UNCHANGED quotes
    ELSE IF IsNone(AgentOf(user)) \/ quotes[id].agent_id # Val(AgentOf(user))
    THEN /\ qresp' = Reply("duplicate_quote", 403, "Access denied", None)
         /\ UNCHANGED quotes
    ELSE /\ Len(quotes) < MaxQuotes
         /\ quotes' = Append(quotes, [quotes[id] EXCEPT !.status = "draft"])
         /\ qresp' = Reply("duplicate_quote", 200, "", Some(Len(quotes) + 1))

DuplicateQuote ==
    /\ \E user \in Users, id \in 1..MaxQuotes : duplicate_quote(user, id)
    /\ UNCHANGED <<rateVars, engineVars, ledgerVars>>

\* The seasonal_rates table while quotes are written: empty, or holding one
\* active rate of package p1 that covers travel date 2 and not travel date 4.
QuoteRateStores ==
    { <<>>,
      << [package_id |-> "p1", start_date |-> 1, end_date |-> 3,
          price_multiplier |-> 150, fixed_price |-> None, is_active |-> TRUE] >> }

InitQuotes ==
    /\ quotes = <<>>
    /\ qresp = NoReply
    /\ rates \in QuoteRateStores
    /\ resp = NoReply
    /\ args = None
    /\ breakdowns = <<>>
    /\ pc = "idle"
    /\ ret = None
    /\ bookings = <<>>
    /\ agents = <<>>
    /\ bresp = NoReply
    /\ payments = <<>>
    /\ presp = NoReply
    /\ inflight = <<>>

NextQuotes ==
    \/ CreateQuote
    \/ UpdateQuote
    \/ DuplicateQuote

NextPax ==
    \/ CreateInconsistentQuote
    \/ UpdateQuote
    \/ DuplicateQuote

InitRates ==
    /\ rates = <<>>
    /\ resp = NoReply
    /\ args = None
    /\ breakdowns = <<>>
    /\ pc = "idle"
    /\ ret = None
    /\ quotes = <<>>
    /\ qresp = NoReply
    /\ bookings = <<>>
    /\ agents = <<>>
    /\ bresp = NoReply
    /\ payments = <<>>
    /\ presp = NoReply
    /\ inflight = <<>>

NextRates ==
    \/ CreateSeasonalRate
    \/ UpdateSeasonalRate
    \/ DeleteSeasonalRate
    \/ CalculateSeasonalPrice

NextPrices ==
    \/ CreatePricedRate
    \/ UpdateRatePrice
    \/ DeleteSeasonalRate
    \/ CalculateSeasonalPrice

---------------------------------------------------------------------------
(* The specifications. *)

\* The seasonal-rate endpoints, called with requests that differ in their
\* prices.
SpecPrices == InitRates /\ [][NextPrices]_vars

\* The seasonal-rate endpoints, called in any order.
SpecRates == InitRates /\ [][NextRates]_vars

\* The quote endpoints, called in any order.
SpecQuotes == InitQuotes /\ [][NextQuotes]_vars

\* The quote endpoints when the quotes created carry an inconsistent pax.
SpecPax == InitQuotes /\ [][NextPax]_vars

\* One call of the pricing engine on arguments drawn from EngineArgs.
SpecEngine == InitEngine /\ [][NextEngine]_vars

\* calculate_rooms and select_vehicle, each called once on drawn arguments.
SpecHelpers == InitHelpers /\ [][NextHelpers]_vars

---------------------------------------------------------------------------
(* Claims about the pricing engine, checked under SpecEngine. *)

Called == pc \in {"done", "again"}

RECURSIVE SumOver(_, _)
SumOver(S, f) ==
    IF S = {}
    THEN 0
    ELSE LET x == CHOOSE y \in S : TRUE
         IN  f[x] + SumOver(S \ {x}, f)

Min(a, b) == IF a <= b THEN a ELSE b

Rooms(pax) == calculate_rooms(pax.adults, pax.child_with_bed, pax.child_without_bed).rooms

\* base_price + hotel_cost + vehicle_cost + addon_cost of a breakdown
Subtotal(b) == b.base_price + b.hotel_cost + b.vehicle_cost + b.addon_cost

\* C2, as claimed: the final_price of every breakdown returned is at least 0.
C2_FinalPriceNeverNegative ==
    Called => \A i \in 1..Len(breakdowns) : breakdowns[i].final_price >= 0

\* C2, amended: final_price is not floored.  It is always subtotal minus tier
\* discount plus markup; it is at least 0 whenever the tier discount does not
\* exceed the subtotal, and it is below 0 whenever the tier discount exceeds
\* the subtotal by more than a flat markup.
C2_FinalPriceUnfloored ==
    Called =>
        \A i \in 1..Len(breakdowns) :
            LET b == breakdowns[i]
                o == args.options[i]
            IN  /\ b.final_price = Subtotal(b) - b.tier_discount + b.markup
                /\ b.tier_discount <= Subtotal(b) => b.final_price >= 0
                /\ (o.markup_type = "flat" /\ b.tier_discount > Subtotal(b) + o.markup * 100)
                       => b.final_price < 0
                /\ (o.markup_type = "percentage" /\ b.tier_discount > Subtotal(b))
                       => b.final_price < 0

\* C2, witness: a call returned a breakdown whose final_price is below 0.
C2_NegativeFinalPrice ==
    Called /\ \E i \in 1..Len(breakdowns) : breakdowns[i].final_price < 0

\* C4, as claimed: hotel_cost is the sum over the package's legs i of
\* hotel_i.price_per_night * nights[i] * rooms.  A leg for which the option
\* has no hotel entry has no price to charge, whatever night count it is
\* given, so it adds nothing under any reading of the claim.
C4_HotelCostOverPackageLegs ==
    Called =>
        \A k \in 1..Len(breakdowns) :
            LET hotels == args.options[k].hotels
                nights == args.package.nights
                term == [i \in 1..Len(nights) |->
                            IF i <= Len(hotels)
                            THEN hotels[i].price_per_night * nights[i] * Rooms(args.pax)
                            ELSE 0]
            IN  breakdowns[k].hotel_cost = 100 * SumOver(1..Len(nights), term)

\* C4, amended: hotel_cost is the sum over the option's hotel entries i of
\* hotel_i.price_per_night * n_i * rooms, where n_i is nights[i] when the
\* package has an i-th leg and 1 when it has not: the entries beyond the
\* package's legs are charged one night, and a leg without an entry adds
\* nothing.
C4_HotelCostOverHotelEntries ==
    Called =>
        \A k \in 1..Len(breakdowns) :
            LET hotels == args.options[k].hotels
                nights == args.package.nights
                paired == Min(Len(hotels), Len(nights))
                onLeg == [i \in 1..paired |-> hotels[i].price_per_night * nights[i]]
                beyond == [i \in (paired + 1)..Len(hotels) |-> hotels[i].price_per_night]
            IN  breakdowns[k].hotel_cost =
                    100 * Rooms(args.pax)
                        * (SumOver(1..paired, onLeg) + SumOver((paired + 1)..Len(hotels), beyond))

\* C4, witness: a call priced an option that has a hotel entry and fewer hotel
\* entries than the package has legs.
C4_FewerHotelsThanLegs ==
    /\ Called
    /\ Len(breakdowns) = 1
    /\ Len(args.options[1].hotels) > 0
    /\ Len(args.options[1].hotels) < Len(args.package.nights)
    /\ breakdowns[1].hotel_cost > 0

\* C9: the call returns one breakdown per option, the i-th being the breakdown
\* of the i-th option; no options, no breakdowns.
C9_OneBreakdownPerOptionInOrder ==
    Called =>
        /\ Len(breakdowns) = Len(args.options)
        /\ \A i \in 1..Len(args.options) :
              breakdowns[i] = PricingBreakdown(args.package, args.options[i], args.pax, args.tier)

\* C9, witness: a call with two different options returned two different
\* breakdowns.
C9_TwoOptionsPriced ==
    /\ Called
    /\ Len(args.options) = 2
    /\ args.options[1] # args.options[2]
    /\ Len(breakdowns) = 2
    /\ breakdowns[1] # breakdowns[2]

---------------------------------------------------------------------------
(* Claims about the seasonal-rate endpoints. *)

\* The rate covers the date, both ends of its range included.
Covers(r, d) == r.start_date <= d /\ d <= r.end_date

\* The active rates of a package that cover a date, read off the table.
ActiveCovering(package_id, d) ==
    {i \in RateIds :
        rates[i].package_id = package_id /\ rates[i].is_active = TRUE /\ Covers(rates[i], d)}

Calculated == resp.op = "calculate_seasonal_price" /\ resp.status = 200

\* C1, as claimed (SpecRates): for every package and every date, at most one
\* active seasonal rate covers the date.
C1_AtMostOneActiveRatePerDate ==
    \A package_id \in PackageIds, d \in Dates :
        Cardinality(ActiveCovering(package_id, d)) <= 1

\* C3, as claimed (SpecPrices): on a date matched by a rate, final_price is the
\* rate's fixed_price whenever the rate carries one (0 included), and
\* base_price * price_multiplier when it carries none.
C3_FixedPriceOverridesMultiplier ==
    (Calculated /\ ~IsNone(resp.body.seasonal_rate)) =>
        LET r == rates[Val(resp.body.seasonal_rate).id]
        IN  IF IsNone(r.fixed_price)
            THEN resp.body.final_price
                     = Packages[resp.body.package_id].base_price * r.price_multiplier
            ELSE resp.body.final_price = Val(r.fixed_price) * 100

\* C6 (SpecRates): a create_seasonal_rate that is accepted adds one row, and
\* that row shares no date with any active rate of its package stored before;
\* a create_seasonal_rate that is rejected leaves the table as it was.  So a
\* request whose range meets an active rate of its package, an end date
\* included, is rejected and stores nothing.
C6_OverlappingCreateRejected ==
    [][resp'.op = "create_seasonal_rate" =>
          \/ /\ resp'.status = 200
             /\ Len(rates') = Len(rates) + 1
             /\ SubSeq(rates', 1, Len(rates)) = rates
             /\ \A i \in RateIds :
                   ~ /\ rates[i].package_id = rates'[Len(rates')].package_id
                     /\ rates[i].is_active = TRUE
                     /\ \E d \in Dates :
                           Covers(rates[i], d) /\ Covers(rates'[Len(rates')], d)
          \/ /\ resp'.status # 200
             /\ rates' = rates]_vars

\* C6, witness: a create was rejected for its overlap with a stored rate.
C6_CreateRejectedForOverlap ==
    /\ resp.op = "create_seasonal_rate"
    /\ resp.status = 400
    /\ resp.detail = "Seasonal rate overlaps with existing rate"
    /\ Len(rates) >= 1

ReportedMultiplier(body) ==
    IF IsNone(body.seasonal_rate)
    THEN None
    ELSE Some(Val(body.seasonal_rate).price_multiplier)

\* C8, as claimed (SpecRates): when no active rate of the package covers the
\* travel date, final_price is the base price and the multiplier reported is
\* 1.0.
C8_NoRateReportsMultiplierOne ==
    (Calculated /\ ActiveCovering(resp.body.package_id, resp.body.travel_date) = {}) =>
        /\ resp.body.final_price = Packages[resp.body.package_id].base_price * 100
        /\ ReportedMultiplier(resp.body) = Some(100)

---------------------------------------------------------------------------
(* Claims about quotes, checked under SpecQuotes. *)

\* The engine's result for a stored quote.
EngineResult(q) ==
    IF Len(q.options) = 0
    THEN <<>>
    ELSE calculate_quote_pricing(Packages[q.package_id], q.options, Val(q.pax),
                                 AgentTier(q.agent_id))

\* C5, as claimed: the breakdowns of a quote reflect the seasonal rate active
\* for its package on its travel date: when an active rate covers the date,
\* base_price is that rate's price for the package times pax.total.
C5_BreakdownReflectsSeasonalRate ==
    \A k \in QuoteIds :
        LET q == quotes[k]
            M == ActiveCovering(q.package_id, q.travel_date)
        IN  M # {} =>
               \E r \in M :
                  \A i \in 1..Len(q.pricing) :
                     q.pricing[i].base_price =
                        Packages[q.package_id].base_price * rates[r].price_multiplier
                            * Val(q.pax).total

\* C10: the pricing stored with a quote is the engine's result for the quote's
\* package, its stored options and its stored pax, one entry per stored option
\* in the options' order.  create_quote and every update_quote that sets pax
\* or options store it so, and duplicate_quote copies it with the options.  A
\* quote that has options has a pax to price them with.
C10_StoredPricingIsEngineResult ==
    \A k \in QuoteIds :
        /\ Len(quotes[k].pricing) = Len(quotes[k].options)
        /\ Len(quotes[k].options) > 0 => ~IsNone(quotes[k].pax)
        /\ quotes[k].pricing = EngineResult(quotes[k])
        /\ \A i \in 1..Len(quotes[k].options) :
              quotes[k].pricing[i] =
                 PricingBreakdown(Packages[quotes[k].package_id], quotes[k].options[i],
                                  Val(quotes[k].pax), AgentTier(quotes[k].agent_id))

\* C10, witness: an update_quote succeeded on a quote of two options that now
\* differs from another stored quote in its pax and in its pricing.
C10_QuoteRepricedByUpdate ==
    /\ qresp.op = "update_quote"
    /\ qresp.status = 200
    /\ Len(quotes[Val(qresp.body)].options) = 2
    /\ Len(quotes[Val(qresp.body)].pricing) = 2
    /\ \E l \in QuoteIds :
          /\ quotes[l].options = quotes[Val(qresp.body)].options
          /\ quotes[l].pax # quotes[Val(qresp.body)].pax
          /\ quotes[l].pricing # quotes[Val(qresp.body)].pricing

---------------------------------------------------------------------------
(* Further claims about the pricing engine, checked under SpecEngine. *)

\* C11: the tier discount is subtracted before the markup is taken.  For the
\* i-th option and its breakdown, a percentage markup is
\* (base_price + hotel_cost + vehicle_cost + addon_cost - tier_discount)
\* * markup_value / 100, a flat markup is markup_value, and final_price is
\* base_price + hotel_cost + vehicle_cost + addon_cost - tier_discount + markup.
C11_DiscountBeforeMarkup ==
    Called =>
        \A i \in 1..Len(breakdowns) :
            LET b == breakdowns[i]
                o == args.options[i]
            IN  /\ o.markup_type = "percentage" =>
                      b.markup * 100 = (Subtotal(b) - b.tier_discount) * o.markup
                /\ o.markup_type = "flat" => b.markup = o.markup * 100
                /\ b.final_price = Subtotal(b) - b.tier_discount + b.markup

\* C11, witness: a call priced a percentage option and a flat option for an
\* agent with a tier discount.
C11_BothMarkupKindsDiscounted ==
    /\ Called
    /\ Len(breakdowns) = 2
    /\ args.options[1].markup_type = "percentage"
    /\ args.options[2].markup_type = "flat"
    /\ breakdowns[1].tier_discount > 0
    /\ breakdowns[1].markup > 0
    /\ breakdowns[2].markup > 0

---------------------------------------------------------------------------
(* Claims about calculate_rooms and select_vehicle, checked under          *)
(* SpecHelpers.                                                            *)

\* ceil(n / 2) for a natural number n: the least k with 2k >= n.
CeilHalf(n) == CHOOSE k \in 0..n : 2 * k >= n /\ \A j \in 0..(k - 1) : 2 * j < n

\* C12: for non-negative counts, calculate_rooms returns
\* rooms = max(1, ceil((adults + child_with_bed) / 2)); the room count is the
\* same for every child_without_bed, and all-zero counts give 1 room.
C12_RoomsFromBedOccupants ==
    pc = "rooms" =>
        /\ Val(ret).rooms =
              (IF CeilHalf(args.adults + args.child_with_bed) >= 1
               THEN CeilHalf(args.adults + args.child_with_bed)
               ELSE 1)
        /\ \A c2 \in 0..MaxChildren :
              calculate_rooms(args.adults, args.child_with_bed, c2).rooms = Val(ret).rooms
        /\ (args.adults = 0 /\ args.child_with_bed = 0) => Val(ret).rooms = 1

\* C12, witness: rooms were calculated for an odd number of bed occupants
\* travelling with children without a bed.
C12_OddOccupantsWithExtraChildren ==
    /\ pc = "rooms"
    /\ args.adults = 2
    /\ args.child_with_bed = 1
    /\ args.child_without_bed = 2
    /\ Val(ret).rooms = 2

\* C13: select_vehicle returns the Avanza for total_pax <= 6, the Innova for
\* 6 < total_pax <= 8, the ELF for 8 < total_pax <= 15 and the Bus for every
\* total_pax > 15, those above 25 included; every call returns a vehicle.
C13_LowestCapacityTierThatFits ==
    pc = "vehicle" =>
        /\ ~IsNone(ret)
        /\ Val(ret).type =
              (IF args.total <= 6 THEN "Avanza"
               ELSE IF args.total <= 8 THEN "Innova"
               ELSE IF args.total <= 15 THEN "ELF"
               ELSE "Bus")
        /\ Val(ret) \in {VEHICLE_PRICING[k] : k \in 1..Len(VEHICLE_PRICING)}

\* C13, witness: a vehicle was selected for a party larger than the Bus.
C13_PartyLargerThanBus ==
    /\ pc = "vehicle"
    /\ args.total > 25
    /\ Val(ret).type = "Bus"

---------------------------------------------------------------------------
(* Claims about the tier discount and the worked scenario, checked under   *)
(* SpecEngine.                                                             *)

\* The tiers in ascending order.
TierOrder == <<"Bronze", "Silver", "Gold", "Platinum">>

\* C14: the discount per pax is 5 for Bronze, 10 for Silver, 15 for Gold, 20
\* for Platinum and 0 for an agent without a tier; it does not decrease from
\* one tier to the next, and the tier_discount of every breakdown is that
\* amount times pax.total.
C14_TierDiscountPerPax ==
    /\ TIER_DISCOUNTS("Bronze") = 5
    /\ TIER_DISCOUNTS("Silver") = 10
    /\ TIER_DISCOUNTS("Gold") = 15
    /\ TIER_DISCOUNTS("Platinum") = 20
    /\ TIER_DISCOUNTS(NoTier) = 0
    /\ \A i \in 1..Len(TierOrder), j \in 1..Len(TierOrder) :
          i <= j => TIER_DISCOUNTS(TierOrder[i]) <= TIER_DISCOUNTS(TierOrder[j])
    /\ Called =>
          \A k \in 1..Len(breakdowns) :
             breakdowns[k].tier_discount =
                100 * args.pax.total *
                   (IF args.tier = "Bronze" THEN 5
                    ELSE IF args.tier = "Silver" THEN 10
                    ELSE IF args.tier = "Gold" THEN 15
                    ELSE IF args.tier = "Platinum" THEN 20
                    ELSE 0)

\* C14, witness: a party of three was priced for a Platinum agent.
C14_PlatinumPartyOfThree ==
    /\ Called
    /\ args.tier = "Platinum"
    /\ args.pax.total = 3
    /\ Len(breakdowns) = 1
    /\ breakdowns[1].tier_discount = 6000

\* The arguments of the worked scenario: base_price 100, duration 3, nights
\* [1, 2], two adults, one option with hotels at 50 and 40 per night, no
\* add-ons, a 10 percent markup, a Bronze agent.
ScenarioArgs ==
    [package |-> [base_price |-> 100, duration |-> 3, nights |-> <<1, 2>>],
     options |-> << [hotels |-> <<Hotel(50), Hotel(40)>>, add_ons |-> <<>>,
                     markup |-> 10, markup_type |-> "percentage"] >>,
     pax |-> PaxOf(2, 0, 0),
     tier |-> "Bronze"]

\* C15: on the arguments of the worked scenario the call returns one
\* breakdown with base_price 200, hotel_cost 130, vehicle_cost 105,
\* addon_cost 0, tier_discount 10, markup 42.5 and final_price 467.5 (the
\* amounts below are in hundredths).
C15_WorkedScenario ==
    (Called /\ args = ScenarioArgs) =>
        breakdowns = << [base_price |-> 20000,
                         hotel_cost |-> 13000,
                         vehicle_cost |-> 10500,
                         addon_cost |-> 0,
                         tier_discount |-> 1000,
                         markup |-> 4250,
                         final_price |-> 46750] >>

\* C15, witness: the call was made on the arguments of the worked scenario.
C15_ScenarioPriced ==
    /\ Called
    /\ args = ScenarioArgs
    /\ Len(breakdowns) = 1

---------------------------------------------------------------------------
(* Further claims about the seasonal-rate endpoints. *)

\* C16 (SpecRates): after every create_seasonal_rate and update_seasonal_rate
\* each stored rate has start_date strictly before end_date, and a request
\* rejected for its dates leaves the table as it was.
C16_StartBeforeEnd ==
    [][/\ \A i \in 1..Len(rates') : rates'[i].start_date < rates'[i].end_date
       /\ (resp'.detail = "Start date must be before end date") =>
             (resp'.status = 400 /\ rates' = rates)]_vars

\* C16, witness: an update of a stored rate was rejected for its dates.
C16_UpdateRejectedForDates ==
    /\ resp.op = "update_seasonal_rate"
    /\ resp.status = 400
    /\ resp.detail = "Start date must be before end date"
    /\ Len(rates) >= 1

---------------------------------------------------------------------------
(* Further claims about quotes. *)

\* C17, as claimed (SpecPax): every pax that create_quote or update_quote prices and
\* stores has total = adults + child_with_bed + child_without_bed.
C17_PaxTotalIsSumOfParts ==
    \A k \in QuoteIds :
        ~IsNone(quotes[k].pax) =>
            Val(quotes[k].pax).total =
                Val(quotes[k].pax).adults + Val(quotes[k].pax).child_with_bed
                    + Val(quotes[k].pax).child_without_bed

C19_RepeatedCalculationAgrees ==
    [][(/\ resp.op = "calculate_seasonal_price"
        /\ resp.status = 200
        /\ resp'.op = "calculate_seasonal_price"
        /\ resp'.status = 200
        /\ resp'.body.package_id = resp.body.package_id
        /\ resp'.body.travel_date = resp.body.travel_date)
       => (rates' = rates /\ resp'.body = resp.body)]_vars

\* C20 (SpecRates): delete_seasonal_rate keeps the row and sets its is_active
\* to false, every other field and every other row as before; the row then
\* meets the overlap query of no create_seasonal_rate request.  The rate that
\* calculate_seasonal_price applies is never a row that is not active, and a
\* create is rejected for an overlap only while an active rate is stored.
C20_DeleteIsSoft ==
    [][/\ (resp'.op = "delete_seasonal_rate" /\ resp'.status = 200) =>
             /\ Val(resp'.body) \in RateIds
             /\ rates' = [rates EXCEPT ![Val(resp'.body)].is_active = FALSE]
             /\ \A req \in CreateRequests : ~Overlaps(rates'[Val(resp'.body)], req)
       /\ (/\ resp'.op = "calculate_seasonal_price"
           /\ resp'.status = 200
           /\ ~IsNone(resp'.body.seasonal_rate))
          => rates'[Val(resp'.body.seasonal_rate).id].is_active = TRUE
       /\ (/\ resp'.op = "create_seasonal_rate"
           /\ resp'.detail = "Seasonal rate overlaps with existing rate")
          => \E i \in RateIds : rates[i].is_active = TRUE]_vars

\* C20, witness: a rate was created over the range of a stored rate of the
\* same package that is no longer active.
C20_CreatedOverInactiveRate ==
    /\ resp.op = "create_seasonal_rate"
    /\ resp.status = 200
    /\ \E j \in RateIds :
          /\ j # Val(resp.body)
          /\ rates[j].is_active = FALSE
          /\ rates[Val(resp.body)].is_active = TRUE
          /\ rates[j].package_id = rates[Val(resp.body)].package_id
          /\ rates[j].start_date <= rates[Val(resp.body)].end_date
          /\ rates[Val(resp.body)].start_date <= rates[j].end_date

---------------------------------------------------------------------------
(* Claims about prices of seasonal rates, checked under SpecPrices. *)

\* C21, as claimed: no stored seasonal rate has a negative price_multiplier,
\* and calculate_seasonal_price returns no negative final_price.
C21_NoNegativeMultiplier ==
    /\ \A i \in RateIds : rates[i].price_multiplier >= 0
    /\ Calculated => resp.body.final_price >= 0

---------------------------------------------------------------------------
(* Claims about the vehicle and add-on costs, checked under SpecEngine. *)

\* The daily price of the vehicle for a party, read off the capacity table.
DailyVehiclePrice(total_pax) ==
    IF total_pax <= 6 THEN 35
    ELSE IF total_pax <= 8 THEN 45
    ELSE IF total_pax <= 15 THEN 65
    ELSE 85

\* C22: the vehicle_cost of every breakdown is the price_per_day of the
\* vehicle selected for pax.total times package.duration, whatever the
\* option's hotels, add-ons and markup: all breakdowns of one call carry the
\* same vehicle_cost.
C22_VehicleCostPerDay ==
    Called =>
        /\ \A i \in 1..Len(breakdowns) :
              breakdowns[i].vehicle_cost =
                 100 * DailyVehiclePrice(args.pax.total) * args.package.duration
        /\ \A i \in 1..Len(breakdowns), j \in 1..Len(breakdowns) :
              breakdowns[i].vehicle_cost = breakdowns[j].vehicle_cost

\* C22, witness: a call priced two options that differ in hotels, add-ons and
\* markup for a package of several days and a party too large for the
\* smallest two vehicles.
C22_TwoOptionsOneVehicle ==
    /\ Called
    /\ args.pax.total > 8
    /\ Len(breakdowns) = 2
    /\ args.options[1].hotels # args.options[2].hotels
    /\ args.options[1].add_ons # args.options[2].add_ons
    /\ args.options[1].markup_type # args.options[2].markup_type
    /\ args.package.duration > 0
    /\ breakdowns[1].vehicle_cost > 0

----------------------------------------------------------------------------
(* Payments: backend/routers/payments.py *)

\* The payments table holds at most MaxPayments rows, and the handlers are
\* called while every paid_amount stays within MaxPaidAmount of zero.
MaxPayments == 2
MaxPaidAmount == 400

PaymentIds == 1..Len(payments)
BookingIds == 1..Len(bookings)
UnknownBooking == 9

\* The ids the gateway gives to the intents it creates, in order.
IntentIds == <<"pi_1", "pi_2", "pi_3">>

\* Amounts of money are in whole currency units.

\* A row of the bookings table.
Booking(quote_id, agent_id, total_amount) ==
    [quote_id |-> quote_id, agent_id |-> agent_id, total_amount |-> total_amount,
     paid_amount |-> 0, status |-> "pending", payment_status |-> "pending"]

\* A row of the payments table as the two creating handlers store it: status
\* takes the column default.
Payment(booking_id, amount, payment_method, payment_intent_id) ==
    [booking_id |-> booking_id, amount |-> amount,
     payment_method |-> payment_method, payment_intent_id |-> payment_intent_id,
     transaction_id |-> None, status |-> "pending", failure_reason |-> None]

\* intent.id of the intent created for the next payment.
NewIntent == IntentIds[Len(payments) + 1]

create_payment(booking_id, amount, payment_method, payment_intent_id) ==
    IF booking_id \notin BookingIds
    THEN /\ presp' = Reply("create_payment", 404, "Booking not found", None)
         /\ UNCHANGED payments
    ELSE /\ Len(payments) < MaxPayments
         /\ payments' = Append(payments,
                Payment(booking_id, amount, payment_method, payment_intent_id))
         /\ presp' = Reply("create_payment", 200, "", None)

\* stripe.PaymentIntent.create returns an intent or raises StripeError: gateway
\* is "ok" or "StripeError".
create_stripe_payment_intent(booking_id, amount, gateway) ==
    IF booking_id \notin BookingIds
    THEN /\ presp' = Reply("create_stripe_payment_intent", 404, "Booking not found", None)
         /\ UNCHANGED payments
    ELSE IF gateway = "StripeError"
    THEN /\ presp' = Reply("create_stripe_payment_intent", 400, "Stripe error", None)
         /\ UNCHANGED payments
    ELSE /\ Len(payments) < MaxPayments
         /\ payments' = Append(payments,
                Payment(booking_id, amount, "stripe", Some(NewIntent)))
         /\ presp' = Reply("create_stripe_payment_intent", 200, "", None)

\* booking.paid_amount += payment.amount, and payment_status from the
\* comparison of the new paid_amount with total_amount.
CreditedWhenExceeded(booking, amount) ==
    [booking EXCEPT
        !.paid_amount = @ + amount,
        !.payment_status =
            IF booking.paid_amount + amount > booking.total_amount
            THEN "completed" ELSE "partially_paid"]

Credited(booking, amount) ==
    [booking EXCEPT
        !.paid_amount = @ + amount,
        !.payment_status =
            IF booking.paid_amount + amount >= booking.total_amount
            THEN "completed" ELSE "partially_paid"]

\* booking = db.query(Booking).filter(Booking.id == payment.booking_id).first()
\* if booking: credit it
CreditBooking(booking_id, amount) ==
    IF booking_id \in BookingIds
    THEN /\ Credited(bookings[booking_id], amount).paid_amount <= MaxPaidAmount
         /\ bookings' = [bookings EXCEPT ![booking_id] = Credited(@, amount)]
    ELSE UNCHANGED bookings

\* db.query(Payment).filter(Payment.payment_intent_id == payment_intent_id)
WithIntent(payment_intent_id) ==
    {i \in PaymentIds : payments[i].payment_intent_id = Some(payment_intent_id)}

\* payment.status = PaymentStatus.FAILED, and the failure_reason of the event
Failed(i, event) ==
    [payments EXCEPT ![i].status = "failed",
                     ![i].failure_reason = event.message]

\* An event is [type, id, charge, message]: charge is the id of the first
\* charge of the intent, or None when the event has no charges field; message
\* is last_payment_error.message, or None when the event has no
\* last_payment_error.  .first() returns any of the matching rows.
stripe_webhook_crediting_failures(event) ==
    /\ presp' = Reply("stripe_webhook", 200, "success", None)
    /\ IF WithIntent(event.id) # {}
          /\ event.type \in {"payment_intent.succeeded", "payment_intent.payment_failed"}
       THEN \E i \in WithIntent(event.id) :
               /\ payments' = IF event.type = "payment_intent.succeeded"
                              THEN [payments EXCEPT ![i].status = "completed",
                                                    ![i].transaction_id = event.charge]
                              ELSE Failed(i, event)
               /\ CreditBooking(payments[i].booking_id, payments[i].amount)
       ELSE UNCHANGED <<payments, bookings>>

stripe_webhook(event) ==
    /\ presp' = Reply("stripe_webhook", 200, "success", None)
    /\ IF event.type = "payment_intent.succeeded" /\ WithIntent(event.id) # {}
       THEN \E i \in WithIntent(event.id) :
               /\ payments' = [payments EXCEPT ![i].status = "completed",
                                               ![i].transaction_id = event.charge]
               /\ CreditBooking(payments[i].booking_id, payments[i].amount)
       ELSE IF event.type = "payment_intent.payment_failed" /\ WithIntent(event.id) # {}
       THEN \E i \in WithIntent(event.id) :
               /\ payments' = Failed(i, event)
               /\ UNCHANGED bookings
       ELSE UNCHANGED <<payments, bookings>>

\* PaymentUpdate, of which status is modelled: None when the request leaves
\* it unset, Some(s) when it sets it to s.
update_payment(payment_id, payment_update) ==
    IF payment_id \notin PaymentIds
    THEN /\ presp' = Reply("update_payment", 404, "Payment not found", None)
         /\ UNCHANGED <<payments, bookings>>
    ELSE /\ payments' = [payments EXCEPT
                ![payment_id].status =
                    IF IsNone(payment_update.status) THEN @ ELSE Val(payment_update.status)]
         /\ IF payment_update.status = Some("completed")
            THEN CreditBooking(payments[payment_id].booking_id, payments[payment_id].amount)
            ELSE UNCHANGED bookings
         /\ presp' = Reply("update_payment", 200, "", None)

\* refund_amount = amount or payment.amount
RefundAmount(payment, amount) == IF Truthy(amount) THEN Val(amount) ELSE payment.amount

\* booking.paid_amount -= refund_amount, and payment_status from the sign of
\* what is left.
Debited(booking, refund_amount) ==
    [booking EXCEPT
        !.paid_amount = @ - refund_amount,
        !.payment_status =
            IF booking.paid_amount - refund_amount <= 0
            THEN "refunded" ELSE "partially_paid"]

\* stripe.Refund.create returns a refund or raises StripeError: gateway is
\* "ok" or "StripeError".  The handler compares refund_amount with
\* payment.amount only to choose the status it stores.
refund_payment(payment_id, amount, gateway) ==
    IF payment_id \notin PaymentIds
    THEN /\ presp' = Reply("refund_payment", 404, "Payment not found", None)
         /\ UNCHANGED <<payments, bookings>>
    ELSE IF payments[payment_id].status # "completed"
    THEN /\ presp' = Reply("refund_payment", 400, "Can only refund completed payments", None)
         /\ UNCHANGED <<payments, bookings>>
    ELSE IF ~ /\ payments[payment_id].payment_method = "stripe"
              /\ ~IsNone(payments[payment_id].payment_intent_id)
    THEN /\ presp' = Reply("refund_payment", 400,
                                  "Refund not supported for this payment method", None)
         /\ UNCHANGED <<payments, bookings>>
    ELSE IF gateway = "StripeError"
    THEN /\ presp' = Reply("refund_payment", 400, "Refund failed", None)
         /\ UNCHANGED <<payments, bookings>>
    ELSE LET payment == payments[payment_id]
             refund_amount == RefundAmount(payment, amount)
         IN /\ payments' = [payments EXCEPT
                   ![payment_id].status =
                       IF refund_amount = payment.amount
                       THEN "refunded" ELSE "partially_paid"]
            /\ IF payment.booking_id \in BookingIds
               THEN /\ Debited(bookings[payment.booking_id], refund_amount).paid_amount
                          >= 0 - MaxPaidAmount
                    /\ bookings' = [bookings EXCEPT
                          ![payment.booking_id] = Debited(@, refund_amount)]
               ELSE UNCHANGED bookings
            /\ presp' = Reply("refund_payment", 200, "success", None)

GatewayOutcomes == {"ok", "StripeError"}

CreatePayment ==
    /\ \/ create_payment(1, 300, "bank_transfer", None)
       \/ create_payment(UnknownBooking, 300, "bank_transfer", None)
    /\ UNCHANGED <<bookings, agents, bresp>>
    /\ UNCHANGED <<rateVars, engineVars, quoteVars, inflight>>

CreateStripePaymentIntent ==
    /\ \/ \E gateway \in GatewayOutcomes :
             create_stripe_payment_intent(1, 100, gateway)
       \/ create_stripe_payment_intent(UnknownBooking, 100, "ok")
    /\ UNCHANGED <<bookings, agents, bresp>>
    /\ UNCHANGED <<rateVars, engineVars, quoteVars, inflight>>

\* The events the gateway posts: a succeeded intent with its charge, a failed
\* one with the message of its error, both also for an intent no payment
\* carries, and an event of a type the handler does not read.
WebhookEvents ==
    [type : {"payment_intent.succeeded"}, id : {"pi_1", "pi_2", "pi_unknown"},
     charge : {Some("ch_1")}, message : {None}]
    \cup
    [type : {"payment_intent.payment_failed"}, id : {"pi_1", "pi_2", "pi_unknown"},
     charge : {None}, message : {Some("Your card was declined.")}]
    \cup
    [type : {"payment_intent.created"}, id : {"pi_1"},
     charge : {None}, message : {None}]

StripeWebhook ==
    /\ \E event \in WebhookEvents : stripe_webhook(event)
    /\ UNCHANGED <<agents, bresp>>
    /\ UNCHANGED <<rateVars, engineVars, quoteVars, inflight>>

PaymentUpdates == [status : {None, Some("completed")}]

UpdatePayment ==
    /\ \E payment_id \in 1..MaxPayments, payment_update \in PaymentUpdates :
          update_payment(payment_id, payment_update)
    /\ UNCHANGED <<agents, bresp>>
    /\ UNCHANGED <<rateVars, engineVars, quoteVars, inflight>>

\* The amount of a refund request: absent, part of a payment, or more than
\* any payment.
RefundAmounts == {None, Some(50), Some(500)}

RefundPayment ==
    /\ \E payment_id \in 1..MaxPayments, amount \in RefundAmounts,
          gateway \in GatewayOutcomes :
          refund_payment(payment_id, amount, gateway)
    /\ UNCHANGED <<agents, bresp>>
    /\ UNCHANGED <<rateVars, engineVars, quoteVars, inflight>>

\* Two bookings of 400 each, nothing paid.
InitPayments ==
    /\ payments = <<>>
    /\ presp = NoReply
    /\ bookings = <<Booking(1, "a1", 400), Booking(2, "a1", 400)>>
    /\ agents = <<>>
    /\ bresp = NoReply
    /\ inflight = <<>>
    /\ rates = <<>>
    /\ resp = NoReply
    /\ args = None
    /\ breakdowns = <<>>
    /\ pc = "idle"
    /\ ret = None
    /\ quotes = <<>>
    /\ qresp = NoReply

NextPayments ==
    \/ CreatePayment
    \/ CreateStripePaymentIntent
    \/ StripeWebhook
    \/ UpdatePayment
    \/ RefundPayment

\* The gateway delivers, or delivers again, the succeeded event of an intent.
DeliverSucceeded ==
    /\ \E event \in WebhookEvents :
          /\ event.type = "payment_intent.succeeded"
          /\ stripe_webhook(event)
    /\ UNCHANGED <<agents, bresp>>
    /\ UNCHANGED <<rateVars, engineVars, quoteVars, inflight>>

NextCredits ==
    \/ CreatePayment
    \/ CreateStripePaymentIntent
    \/ DeliverSucceeded
    \/ UpdatePayment

\* The payment endpoints, called in any order, with the gateway's events
\* delivered any number of times.
SpecPayments == InitPayments /\ [][NextPayments]_vars

\* Payments created, then only succeeded events and update_payment calls.
SpecCredits == InitPayments /\ [][NextCredits]_vars

----------------------------------------------------------------------------
(* Claims about the payment endpoints. *)

\* C24 (SpecPayments): a refund_payment request for more than the amount of a
\* COMPLETED payment is answered with an error, and leaves the status of the
\* payment and the paid_amount and payment_status of its booking as they were.
C24_OverRefundRejected ==
    [][\A payment_id \in PaymentIds, amount \in RefundAmounts, gateway \in GatewayOutcomes :
          (/\ payments[payment_id].status = "completed"
           /\ Truthy(amount)
           /\ Val(amount) > payments[payment_id].amount
           /\ refund_payment(payment_id, amount, gateway))
          => /\ presp'.status >= 400
             /\ payments' = payments
             /\ bookings' = bookings]_vars

C26_FailedEventLeavesBooking ==
    [][\A event \in WebhookEvents :
          (/\ event.type = "payment_intent.payment_failed"
           /\ \E i \in PaymentIds : payments[i].payment_intent_id = Some(event.id)
           /\ stripe_webhook(event))
          => /\ \E i \in PaymentIds :
                   /\ payments[i].payment_intent_id = Some(event.id)
                   /\ payments'[i].status = "failed"
                   /\ payments'[i].failure_reason = event.message
                   /\ \A j \in PaymentIds \ {i} : payments'[j] = payments[j]
             /\ Len(payments') = Len(payments)
             /\ bookings' = bookings]_vars

\* C26, witness: a payment that had been credited to its booking was then
\* failed by an event, and the booking still shows what was paid.
C26_CreditedPaymentFailed ==
    /\ presp.op = "stripe_webhook"
    /\ \E i \in PaymentIds :
          /\ payments[i].status = "failed"
          /\ payments[i].failure_reason = Some("Your card was declined.")
          /\ payments[i].transaction_id = Some("ch_1")
          /\ bookings[payments[i].booking_id].paid_amount = payments[i].amount

\* The sum of the amounts of the COMPLETED payments of booking b.
CompletedSum(b) ==
    SumOver({i \in PaymentIds : payments[i].booking_id = b /\ payments[i].status = "completed"},
            [i \in PaymentIds |-> payments[i].amount])

\* C27 (SpecCredits): whatever succeeded events are delivered, once or again,
\* and whatever update_payment calls are made, the paid_amount of a booking
\* never exceeds the sum of the amounts of its COMPLETED payments.
C27_PaidWithinCompletedPayments ==
    \A b \in BookingIds : bookings[b].paid_amount <= CompletedSum(b)

----------------------------------------------------------------------------
(* create_seasonal_rate served by several threads.  The handler is a plain
   def, which the framework runs in its thread pool; each thread has its own
   session, reads the rows committed so far and commits its own insert. *)

MaxInflight == 2

\* The requests served at the same time: active rates, of any range, for one
\* package, and one for a package that does not exist.
RaceRequests ==
    {req \in CreateRequests :
        req.is_active /\ req.package_id \in {"p1", UnknownPackage}}

\* A request arrives and a thread starts serving it.
ReceiveCreate ==
    /\ Len(inflight) < MaxInflight
    /\ \E req \in RaceRequests :
          inflight' = Append(inflight, [req |-> req, pc |-> "check", status |-> 0])
    /\ UNCHANGED <<rateVars, engineVars, quoteVars, bookings, agents, bresp, payments, presp>>

\* The handler up to its overlap query: the package lookup, the date check and
\* the query, with the exception each of them raises.
create_seasonal_rate_check(t) ==
    /\ inflight[t].pc = "check"
    /\ IF inflight[t].req.package_id \notin PackageIds
       THEN inflight' = [inflight EXCEPT ![t].pc = "done", ![t].status = 404]
       ELSE IF InvalidRange(inflight[t].req.start_date, inflight[t].req.end_date)
       THEN inflight' = [inflight EXCEPT ![t].pc = "done", ![t].status = 400]
       ELSE IF \E i \in RateIds : Overlaps(rates[i], inflight[t].req)
       THEN inflight' = [inflight EXCEPT ![t].pc = "done", ![t].status = 400]
       ELSE inflight' = [inflight EXCEPT ![t].pc = "insert"]

CheckCreate ==
    /\ \E t \in 1..Len(inflight) : create_seasonal_rate_check(t)
    /\ UNCHANGED <<rateVars, engineVars, quoteVars, bookings, agents, bresp, payments, presp>>

\* The rest of the handler: db.add and db.commit of the new row.
create_seasonal_rate_insert(t) ==
    /\ inflight[t].pc = "insert"
    /\ Len(rates) < MaxRates
    /\ rates' = Append(rates, inflight[t].req)
    /\ inflight' = [inflight EXCEPT ![t].pc = "done", ![t].status = 200]

InsertCreate ==
    /\ \E t \in 1..Len(inflight) : create_seasonal_rate_insert(t)
    /\ UNCHANGED <<resp, engineVars, quoteVars, bookings, agents, bresp, payments, presp>>

\* No rate is stored and no request is being served.
InitRace ==
    /\ inflight = <<>>
    /\ rates = <<>>
    /\ resp = NoReply
    /\ args = None
    /\ breakdowns = <<>>
    /\ pc = "idle"
    /\ ret = None
    /\ quotes = <<>>
    /\ qresp = NoReply
    /\ bookings = <<>>
    /\ agents = <<>>
    /\ bresp = NoReply
    /\ payments = <<>>
    /\ presp = NoReply

NextRace ==
    \/ ReceiveCreate
    \/ CheckCreate
    \/ InsertCreate

\* create_seasonal_rate requests served by threads whose steps interleave.
SpecRace == InitRace /\ [][NextRace]_vars

\* C28 (SpecRace): of two create_seasonal_rate requests for the same package
\* whose ranges share a date, served at the same time, at most one is
\* answered 200; and the table never holds two active rates of one package
\* that share a date.
C28_ConcurrentCreatesExclusive ==
    /\ \A t, u \in 1..Len(inflight) :
          (/\ t # u
           /\ inflight[t].status = 200
           /\ inflight[u].status = 200
           /\ inflight[t].req.package_id = inflight[u].req.package_id)
          => ~ \E d \in Dates : Covers(inflight[t].req, d) /\ Covers(inflight[u].req, d)
    /\ \A i, j \in RateIds :
          (/\ i # j
           /\ rates[i].package_id = rates[j].package_id
           /\ rates[i].is_active = TRUE
           /\ rates[j].is_active = TRUE)
          => ~ \E d \in Dates : Covers(rates[i], d) /\ Covers(rates[j], d)

----------------------------------------------------------------------------
(* Bookings: backend/routers/bookings.py *)

\* The callers of the booking endpoints: the agents' users of the quotes
\* section and an administrator, who has no agent profile.
AdminUser == "u0"
BookingCallers == Users \cup {AdminUser}

\* user.role
UserRole(user) == IF user = AdminUser THEN "admin" ELSE "agent"

\* A row of the quotes table when the booking endpoints run.
StoredQuote(agent_id, pax, status) ==
    [agent_id |-> agent_id, package_id |-> "p1", travel_date |-> 2,
     pax |-> Some(pax), options |-> <<>>, pricing |-> <<>>, status |-> status]

\* Agent a1 has two accepted quotes and a draft, agent a2 an accepted quote.
BookingQuotes ==
    << StoredQuote("a1", PaxOf(2, 0, 0), "accepted"),
       StoredQuote("a1", PaxOf(3, 1, 0), "draft"),
       StoredQuote("a2", PaxOf(2, 1, 0), "accepted"),
       StoredQuote("a1", PaxOf(3, 1, 0), "accepted") >>

UnknownQuote == 9

\* The statistics columns of an agent.  conversion_rate is
\* (total_bookings / total_quotes) * 100, kept as <<total_bookings, total_quotes>>;
\* the column default 0.0 and the value stored when the agent has no quote
\* are <<0, 1>>.
AgentStats(total_pax, total_revenue, tier) ==
    [total_pax |-> total_pax, pax_this_month |-> 0, total_revenue |-> total_revenue,
     conversion_rate |-> <<0, 1>>, tier |-> tier]

\* a1 is two pax short of the second tier; a2 has booked nothing yet.
BookingAgents ==
    [a \in {"a1", "a2"} |->
        IF a = "a1" THEN AgentStats(48, 9000, "Bronze") ELSE AgentStats(0, 0, "Bronze")]

calculate_tier(total_pax) ==
    IF total_pax >= 500 THEN "Platinum"
    ELSE IF total_pax >= 200 THEN "Gold"
    ELSE IF total_pax >= 50 THEN "Silver"
    ELSE "Bronze"

\* db.query(Quote).filter(Quote.agent_id == agent.id).count()
QuotesOf(agent) == Cardinality({q \in QuoteIds : quotes[q].agent_id = agent})

\* (total_bookings / total_quotes) * 100 if total_quotes > 0 else 0
ConversionRate(total_bookings, total_quotes) ==
    IF total_quotes > 0 THEN <<total_bookings, total_quotes>> ELSE <<0, 1>>

\* The statistics of the agent after a booking of the quote for total_amount:
\* the count of the agent's bookings is taken before the new row is flushed.
Booked(agent, quote, total_amount) ==
    [total_pax |-> agents[agent].total_pax + Val(quote.pax).total,
     pax_this_month |-> agents[agent].pax_this_month + Val(quote.pax).total,
     total_revenue |-> agents[agent].total_revenue + total_amount,
     conversion_rate |->
        ConversionRate(
            Cardinality({b \in BookingIds : bookings[b].agent_id = agent}) + 1,
            QuotesOf(agent)),
     tier |-> calculate_tier(agents[agent].total_pax + Val(quote.pax).total)]

\* BookingCreate, of which quote_id and total_amount are modelled.
create_booking_unchecked(user, booking_data) ==
    IF IsNone(AgentOf(user))
    THEN /\ bresp' = Reply("create_booking", 404, "Agent profile not found", None)
         /\ UNCHANGED <<bookings, agents>>
    ELSE IF booking_data.quote_id \notin QuoteIds
    THEN /\ bresp' = Reply("create_booking", 404, "Quote not found", None)
         /\ UNCHANGED <<bookings, agents>>
    ELSE IF quotes[booking_data.quote_id].agent_id # Val(AgentOf(user))
    THEN /\ bresp' = Reply("create_booking", 403, "Quote does not belong to this agent", None)
         /\ UNCHANGED <<bookings, agents>>
    ELSE IF quotes[booking_data.quote_id].status # "accepted"
    THEN /\ bresp' = Reply("create_booking", 400,
                                  "Quote must be accepted before creating booking", None)
         /\ UNCHANGED <<bookings, agents>>
    ELSE /\ Len(bookings) < Len(quotes)
         /\ bookings' = Append(bookings,
                Booking(booking_data.quote_id, Val(AgentOf(user)), booking_data.total_amount))
         /\ agents' = [agents EXCEPT ![Val(AgentOf(user))] =
                          Booked(Val(AgentOf(user)), quotes[booking_data.quote_id],
                                 booking_data.total_amount)]
         /\ bresp' = Reply("create_booking", 200, "", Some(Len(bookings) + 1))

create_booking(user, booking_data) ==
    IF IsNone(AgentOf(user))
    THEN /\ bresp' = Reply("create_booking", 404, "Agent profile not found", None)
         /\ UNCHANGED <<bookings, agents>>
    ELSE IF booking_data.quote_id \notin QuoteIds
    THEN /\ bresp' = Reply("create_booking", 404, "Quote not found", None)
         /\ UNCHANGED <<bookings, agents>>
    ELSE IF quotes[booking_data.quote_id].agent_id # Val(AgentOf(user))
    THEN /\ bresp' = Reply("create_booking", 403, "Quote does not belong to this agent", None)
         /\ UNCHANGED <<bookings, agents>>
    ELSE IF quotes[booking_data.quote_id].status # "accepted"
    THEN /\ bresp' = Reply("create_booking", 400,
                                  "Quote must be accepted before creating booking", None)
         /\ UNCHANGED <<bookings, agents>>
    ELSE IF \E b \in BookingIds : bookings[b].quote_id = booking_data.quote_id
    THEN /\ bresp' = Reply("create_booking", 400,
                                  "Booking already exists for this quote", None)
         /\ UNCHANGED <<bookings, agents>>
    ELSE /\ bookings' = Append(bookings,
                Booking(booking_data.quote_id, Val(AgentOf(user)), booking_data.total_amount))
         /\ agents' = [agents EXCEPT ![Val(AgentOf(user))] =
                          Booked(Val(AgentOf(user)), quotes[booking_data.quote_id],
                                 booking_data.total_amount)]
         /\ bresp' = Reply("create_booking", 200, "", Some(Len(bookings) + 1))

\* require_role("admin")(credentials), then booking.status = CONFIRMED
confirm_booking(user, booking_id) ==
    IF UserRole(user) # "admin"
    THEN /\ bresp' = Reply("confirm_booking", 403, "Access denied", None)
         /\ UNCHANGED <<bookings, agents>>
    ELSE IF booking_id \notin BookingIds
    THEN /\ bresp' = Reply("confirm_booking", 404, "Booking not found", None)
         /\ UNCHANGED <<bookings, agents>>
    ELSE /\ bookings' = [bookings EXCEPT ![booking_id].status = "confirmed"]
         /\ UNCHANGED agents
         /\ bresp' = Reply("confirm_booking", 200, "", Some(booking_id))

\* require_role("admin")(credentials), then booking.status = COMPLETED
complete_booking(user, booking_id) ==
    IF UserRole(user) # "admin"
    THEN /\ bresp' = Reply("complete_booking", 403, "Access denied", None)
         /\ UNCHANGED <<bookings, agents>>
    ELSE IF booking_id \notin BookingIds
    THEN /\ bresp' = Reply("complete_booking", 404, "Booking not found", None)
         /\ UNCHANGED <<bookings, agents>>
    ELSE /\ bookings' = [bookings EXCEPT ![booking_id].status = "completed"]
         /\ UNCHANGED agents
         /\ bresp' = Reply("complete_booking", 200, "", Some(booking_id))

\* The statistics of the agent of a booking after the subtraction in
\* cancel_booking, given the bookings table as the handler has written it.
Released(booking, table) ==
    [agents[booking.agent_id] EXCEPT
        !.total_pax = Max(0, @ - Val(quotes[booking.quote_id].pax).total),
        !.total_revenue = Max(0, @ - booking.total_amount),
        !.conversion_rate =
            ConversionRate(
                Cardinality({b \in DOMAIN table :
                    /\ table[b].agent_id = booking.agent_id
                    /\ table[b].status \in {"confirmed", "completed"}}),
                QuotesOf(booking.agent_id))]

\* The handler sets booking.status = CANCELLED and then reads booking.status
\* to decide whether to subtract: cancelled is the row it reads.
cancel_booking(user, booking_id) ==
    IF booking_id \notin BookingIds
    THEN /\ bresp' = Reply("cancel_booking", 404, "Booking not found", None)
         /\ UNCHANGED <<bookings, agents>>
    ELSE IF /\ UserRole(user) # "admin"
            /\ \/ IsNone(AgentOf(user))
               \/ bookings[booking_id].agent_id # Val(AgentOf(user))
    THEN /\ bresp' = Reply("cancel_booking", 403, "Access denied", None)
         /\ UNCHANGED <<bookings, agents>>
    ELSE LET cancelled == [bookings[booking_id] EXCEPT !.status = "cancelled"]
             table == [bookings EXCEPT ![booking_id] = cancelled]
         IN /\ bookings' = table
            /\ IF /\ cancelled.status = "confirmed"
                  /\ cancelled.agent_id \in DOMAIN agents
                  /\ cancelled.quote_id \in QuoteIds
               THEN agents' = [agents EXCEPT ![cancelled.agent_id] = Released(cancelled, table)]
               ELSE UNCHANGED agents
            /\ bresp' = Reply("cancel_booking", 200, "", Some(booking_id))

BookingRequests == [quote_id : 1..Len(BookingQuotes) \cup {UnknownQuote}, total_amount : {500}]

CreateBooking ==
    /\ \E user \in BookingCallers, booking_data \in BookingRequests :
          create_booking(user, booking_data)
    /\ UNCHANGED <<rateVars, engineVars, quoteVars, payments, presp, inflight>>

ConfirmBooking ==
    /\ \E user \in {"u1", AdminUser}, booking_id \in 1..Len(BookingQuotes) :
          confirm_booking(user, booking_id)
    /\ UNCHANGED <<rateVars, engineVars, quoteVars, payments, presp, inflight>>

CompleteBooking ==
    /\ \E user \in {"u1", AdminUser}, booking_id \in 1..Len(BookingQuotes) :
          complete_booking(user, booking_id)
    /\ UNCHANGED <<rateVars, engineVars, quoteVars, payments, presp, inflight>>

CancelBooking ==
    /\ \E user \in BookingCallers, booking_id \in 1..Len(BookingQuotes) :
          cancel_booking(user, booking_id)
    /\ UNCHANGED <<rateVars, engineVars, quoteVars, payments, presp, inflight>>

\* The quotes and agents above, and no booking.
InitBookings ==
    /\ bookings = <<>>
    /\ agents = BookingAgents
    /\ bresp = NoReply
    /\ quotes = BookingQuotes
    /\ qresp = NoReply
    /\ payments = <<>>
    /\ presp = NoReply
    /\ inflight = <<>>
    /\ rates = <<>>
    /\ resp = NoReply
    /\ args = None
    /\ breakdowns = <<>>
    /\ pc = "idle"
    /\ ret = None

NextBookings ==
    \/ CreateBooking
    \/ ConfirmBooking
    \/ CompleteBooking
    \/ CancelBooking

\* The booking endpoints, called in any order by agents and an administrator.
SpecBookings == InitBookings /\ [][NextBookings]_vars

----------------------------------------------------------------------------
(* Claims about the booking endpoints, checked under SpecBookings. *)

\* C29 (SpecBookings): a cancel_booking that is accepted sets the booking to
\* cancelled; when the booking was confirmed it also takes the pax total of the
\* booking's quote off the agent's total_pax and the booking's total_amount off
\* the agent's total_revenue, neither going below 0; when the booking was not
\* confirmed it leaves the agents' statistics as they were.
C29_CancelReleasesAgentStatistics ==
    [][\A user \in BookingCallers, booking_id \in BookingIds :
          (cancel_booking(user, booking_id) /\ bresp'.status = 200) =>
             /\ bookings'[booking_id].status = "cancelled"
             /\ IF bookings[booking_id].status = "confirmed"
                THEN LET agent == bookings[booking_id].agent_id
                         quote == quotes[bookings[booking_id].quote_id]
                     IN  /\ agents'[agent].total_pax
                               = Max(0, agents[agent].total_pax - Val(quote.pax).total)
                         /\ agents'[agent].total_revenue
                               = Max(0, agents[agent].total_revenue
                                            - bookings[booking_id].total_amount)
                ELSE agents' = agents]_vars

\* C30 (SpecBookings): no two bookings are of the same quote.  A create_booking
\* that is accepted adds one booking, of a quote that is accepted, belongs to
\* the calling agent and had no booking; a create_booking that is refused
\* leaves the bookings and the agents' total_pax, total_revenue,
\* conversion_rate and tier as they were.
C30_OneBookingPerAcceptedOwnQuote ==
    [][/\ \A user \in BookingCallers, booking_data \in BookingRequests :
             create_booking(user, booking_data) =>
                IF bresp'.status = 200
                THEN /\ booking_data.quote_id \in QuoteIds
                     /\ quotes[booking_data.quote_id].status = "accepted"
                     /\ AgentOf(user) = Some(quotes[booking_data.quote_id].agent_id)
                     /\ \A b \in BookingIds : bookings[b].quote_id # booking_data.quote_id
                     /\ Len(bookings') = Len(bookings) + 1
                     /\ SubSeq(bookings', 1, Len(bookings)) = bookings
                     /\ bookings'[Len(bookings')].quote_id = booking_data.quote_id
                     /\ bookings'[Len(bookings')].agent_id
                           = quotes[booking_data.quote_id].agent_id
                ELSE /\ bresp'.status >= 400
                     /\ bookings' = bookings
                     /\ agents' = agents
       /\ \A i, j \in DOMAIN bookings' :
             i # j => bookings'[i].quote_id # bookings'[j].quote_id]_vars

\* C30, witness: a second create_booking for a quote that has a booking was
\* refused, after the first had moved the agent to the next tier.
C30_SecondBookingRefused ==
    /\ bresp.op = "create_booking"
    /\ bresp.detail = "Booking already exists for this quote"
    /\ \E b \in BookingIds : bookings[b].agent_id = "a1"
    /\ agents["a1"].tier = "Silver"

=============================================================================
